---- MODULE Spec2Model ----
(***************************************************************************)
(* Model of src/face_detection_lite/face_embeddings.rs: FaceEmbeddings::new,*)
(* FaceEmbeddings::infer and crop_image_to_bbox.                            *)
(*                                                                         *)
(* Numbers.  Bounding-box coordinates are floats in the source; here they   *)
(* are fixed-point integers counting 1/Q of a pixel.  Tensor values are     *)
(* counted in 1/PIX_MAX (so 1.0 is PIX_MAX), embedding values in 1/FX.      *)
(*                                                                         *)
(* Images.  Every image of the input family is solid-colour: all pixels     *)
(* hold the same 3-channel value px.  A buffer that holds such data is      *)
(* stored by its length and its repeating channel triple "chan": element i  *)
(* (1-based, row-major) is chan[((i-1) % 3) + 1].                           *)
(***************************************************************************)
EXTENDS Integers, Sequences, FiniteSets, TLC

VARIABLES session, call, interpreter, returned, steps, cropArg, cropRes

vars == <<session, call, interpreter, returned, steps, cropArg, cropRes>>

(***************************************************************************)
(* Bounds of the input family.                                             *)
(***************************************************************************)
Q == 2
ImgW == 2
ImgH == 1
FX == 10000

(***************************************************************************)
(* Program constants.                                                      *)
(***************************************************************************)
IMG_SIZE == 112
CHANNELS == 3
PIX_MAX == 255
I32_MAX == 2147483647
Feature128 == 128
Feature512 == 512
DEFAULT_MODEL_PATH == "./models/face_embeddings.tflite"
OUTPUT_RANGE == <<0, 1>>

Sessions == {"s1", "s2"}
Calls == {"c1", "c2"}

(***************************************************************************)
(* Arithmetic helpers.                                                     *)
(***************************************************************************)
Abs(a) == IF a < 0 THEN -a ELSE a

\* division truncating toward zero, as Rust's integer division and float->int cast
DivT(a, b) == IF a >= 0 THEN a \div b ELSE -((-a) \div b)

\* division rounding to the nearest integer, as a float division rounds its result
DivR(a, b) == IF a >= 0 THEN (2 * a + b) \div (2 * b) ELSE -((2 * (-a) + b) \div (2 * b))

RECURSIVE Product(_)
Product(s) == IF s = <<>> THEN 1 ELSE Head(s) * Product(Tail(s))

RECURSIVE ISqrtIn(_, _, _)
ISqrtIn(n, lo, hi) ==
    IF lo >= hi THEN lo
    ELSE LET m == (lo + hi + 1) \div 2
         IN IF m * m <= n THEN ISqrtIn(n, m, hi) ELSE ISqrtIn(n, lo, m - 1)

\* floor of the square root of n, 0 <= n <= I32_MAX
ISqrt(n) == ISqrtIn(n, 0, 46340)

\* the integer nearest to the square root of n
SqrtR(n) == LET r == ISqrt(n) IN IF n - r * r <= r THEN r ELSE r + 1

RECURSIVE SumSqIn(_, _, _)
SumSqIn(row, lo, hi) ==
    IF lo > hi THEN 0
    ELSE IF lo = hi THEN row[lo] * row[lo]
    ELSE LET m == (lo + hi) \div 2
         IN SumSqIn(row, lo, m) + SumSqIn(row, m + 1, hi)

SumSq(row) == SumSqIn(row, 1, Len(row))

(***************************************************************************)
(* opencv::core::Mat of the input family, and the BBox argument.           *)
(***************************************************************************)
Mat(cols, rows, px) == [cols |-> cols, rows |-> rows, px |-> px]

EmptyMat == Mat(0, 0, <<0, 0, 0>>)

Images == { Mat(ImgW, ImgH, <<10, 128, 255>>), Mat(ImgW, ImgH, <<200, 0, 64>>) }

XCoords == (-Q)..(Q * (ImgW + 1))
YCoords == (-Q)..(Q * (ImgH + 1))

BBox(xmin, ymin, xmax, ymax) == [xmin |-> xmin, ymin |-> ymin, xmax |-> xmax, ymax |-> ymax]

\* every box on the 1/Q grid around the image: the family of the crop specification
AllBBoxes == { BBox(x0, y0, x1, y1) : x0 \in XCoords, x1 \in XCoords, y0 \in YCoords, y1 \in YCoords }

\* the boxes handed to infer: every x extent, with the y extents full, empty and inverted
InferBBoxes == { b \in AllBBoxes : b.ymin \in {0, Q * ImgH} /\ b.ymax \in {0, Q * ImgH} }

\* the boxes of the two-call specification
FewBBoxes == { BBox(0, 0, Q * ImgW, Q * ImgH), BBox(0, 0, Q * (ImgW + 1), Q * ImgH) }

(***************************************************************************)
(* crop_image_to_bbox                                                      *)
(***************************************************************************)
\* `v as i32` for a float v = f / Q: truncation toward zero, saturating
AsI32(f) ==
    LET t == DivT(f, Q)
    IN IF t > I32_MAX THEN I32_MAX ELSE IF t < -I32_MAX - 1 THEN -I32_MAX - 1 ELSE t

CropRect_diff(rect) ==
    [x |-> AsI32(rect.xmin), y |-> AsI32(rect.ymin),
     width |-> AsI32(rect.xmax) - AsI32(rect.xmin), height |-> AsI32(rect.ymax) - AsI32(rect.ymin)]

\* the opencv::core::Rect built from the box
CropRect(rect) ==
    [x |-> AsI32(rect.xmin), y |-> AsI32(rect.ymin),
     width |-> AsI32(rect.xmax - rect.xmin), height |-> AsI32(rect.ymax - rect.ymin)]

\* the check Mat::roi makes on the rectangle (it fails otherwise)
RoiInside(image, r) ==
    /\ 0 <= r.x /\ 0 <= r.width /\ r.x + r.width <= image.cols
    /\ 0 <= r.y /\ 0 <= r.height /\ r.y + r.height <= image.rows

\* Mat::roi: the sub-matrix of an accepted rectangle; one without area is the empty Mat
MatRoi(image, r) ==
    IF r.width <= 0 \/ r.height <= 0 THEN EmptyMat ELSE Mat(r.width, r.height, image.px)

crop_image_to_bbox(image, rect) ==
    LET r == CropRect(rect)
    IN IF RoiInside(image, r)
       THEN [tag |-> "ok", mat |-> MatRoi(image, r)]
       ELSE [tag |-> "panic", mat |-> EmptyMat]

(***************************************************************************)
(* Model files.  A file is what FlatBufferModel::build_from_file reads: the *)
(* tensors the graph declares (element kind and dims), the indices of its   *)
(* input and output tensors, whether the interpreter can be built from it,  *)
(* allocated and run, and the function its graph computes.                  *)
(***************************************************************************)
Tensor(kind, dims) == [kind |-> kind, dims |-> dims]

ModelFile(inDims, outDims, graph) ==
    [buildOk |-> TRUE, allocOk |-> TRUE, invokeOk |-> TRUE,
     inputs |-> <<1>>, outputs |-> <<2>>,
     tensors |-> <<Tensor("f32", inDims), Tensor("f32", outDims)>>,
     graph |-> graph]

InDims == <<1, IMG_SIZE, IMG_SIZE, CHANNELS>>

Good128 == ModelFile(InDims, <<1, Feature128>>, "net")
Good512 == ModelFile(InDims, <<1, Feature512>>, "net")

FileSystem ==
    (DEFAULT_MODEL_PATH :> Good128)
    @@ ("facenet512.tflite" :> Good512)
    @@ ("unsupported_op.tflite" :> [Good128 EXCEPT !.buildOk = FALSE])
    @@ ("alloc_fail.tflite" :> [Good128 EXCEPT !.allocOk = FALSE])
    @@ ("invoke_fail.tflite" :> [Good128 EXCEPT !.invokeOk = FALSE])
    @@ ("quantized.tflite" :> [Good128 EXCEPT !.tensors =
            <<Tensor("u8", InDims), Tensor("u8", <<1, Feature128>>)>>])
    @@ ("u8_output.tflite" :> [Good128 EXCEPT !.tensors =
            <<Tensor("f32", InDims), Tensor("u8", <<1, Feature128>>)>>])
    @@ ("batch2.tflite" :>
            ModelFile(<<2, IMG_SIZE, IMG_SIZE, CHANNELS>>, <<2, Feature128>>, "net"))
    @@ ("flat_output.tflite" :> ModelFile(InDims, <<Feature128>>, "net"))
    @@ ("rank3_output.tflite" :> ModelFile(InDims, <<1, 1, Feature128>>, "net"))
    @@ ("no_output_info.tflite" :> [Good128 EXCEPT !.outputs = <<3>>])
    @@ ("no_inputs.tflite" :> [Good128 EXCEPT !.inputs = <<>>])
    @@ ("no_outputs.tflite" :> [Good128 EXCEPT !.outputs = <<>>])
    @@ ("zero_output.tflite" :> ModelFile(InDims, <<1, Feature128>>, "zero"))
    @@ ("unit_output.tflite" :> ModelFile(InDims, <<1, Feature512>>, "unit"))

\* the Option<String> argument of new: <<>> is None, <<p>> is Some(p)
AllPathArgs == {<<>>} \cup { <<p>> : p \in (DOMAIN FileSystem) \cup {"missing.tflite"} }

FewPathArgs == {<<>>, <<"facenet512.tflite">>}

(***************************************************************************)
(* The tflite interpreter, as far as infer uses it.                        *)
(***************************************************************************)
\* a buffer of n elements repeating the channel triple
Buf(n, chan) == [len |-> n, chan |-> chan]

ZeroBuf(n) == Buf(n, <<0, 0, 0>>)

Zeros(n) == [j \in 1..n |-> 0]

NoInterpreter == [model |-> Good128, allocated |-> FALSE, input |-> ZeroBuf(0), output |-> <<>>]

\* interpreter.tensor_info(index): <<>> is None
TensorInfo(model, index) ==
    IF index \in 1..Len(model.tensors) THEN <<model.tensors[index]>> ELSE <<>>

\* number of elements of the buffer of the i-th input (or output) tensor; 0 when there is none
BufLen(model, indices) ==
    IF indices = <<>> \/ TensorInfo(model, indices[1]) = <<>>
    THEN 0
    ELSE Product(TensorInfo(model, indices[1])[1].dims)

\* InterpreterBuilder::new(..)?.build()?
BuildInterp(model) ==
    [model |-> model, allocated |-> FALSE, input |-> ZeroBuf(0), output |-> <<>>]

\* interpreter.allocate_tensors(): buffers sized to the declared tensor shapes
Allocated(interp) ==
    [interp EXCEPT !.allocated = TRUE,
                   !.input = ZeroBuf(BufLen(interp.model, interp.model.inputs)),
                   !.output = Zeros(BufLen(interp.model, interp.model.outputs))]

\* The function the graph computes from the input buffer.  The trained network
\* is opaque: "net" stands for a fixed function of every input value, "zero"
\* and "unit" for graphs whose output row is the zero vector resp. has norm 1.
GraphOutput(model, input) ==
    LET n == BufLen(model, model.outputs)
        seed == input.chan[1] + 2 * input.chan[2] + 3 * input.chan[3] + input.len
    IN CASE model.graph = "zero" -> Zeros(n)
         [] model.graph = "unit" ->
                [j \in 1..n |-> IF j = 1 THEN (3 * FX) \div 5
                                ELSE IF j = 2 THEN (4 * FX) \div 5 ELSE 0]
         [] OTHER -> [j \in 1..n |-> ((37 * j + 11 * seed) % 2001) - 1000]

(***************************************************************************)
(* image_to_tensor (crate::face_detection_lite::transform) and l2_norm      *)
(* (crate::face_detection_lite::utils): not part of the source at hand,     *)
(* modelled from the specification, sections 4.2 and 4.4.                   *)
(***************************************************************************)
NoTensor == [shape |-> <<>>, chan |-> <<0, 0, 0>>]

\* linear remap of a pixel value into the output range, counted in 1/PIX_MAX
Remap(v, range) == v * (range[2] - range[1]) + range[1] * PIX_MAX

\* resize to size (bilinear interpolation of a solid colour is that colour),
\* BGR -> RGB, remap into range; UnsupportedShape for an image without area
image_to_tensor(image, size, range) ==
    IF image.cols <= 0 \/ image.rows <= 0
    THEN [tag |-> "err", tensor_data |-> NoTensor]
    ELSE [tag |-> "ok",
          tensor_data |-> [shape |-> <<size[2], size[1], CHANNELS>>,
                           chan |-> <<Remap(image.px[3], range), Remap(image.px[2], range),
                                      Remap(image.px[1], range)>>]]

NoArray == [shape |-> <<0, 0>>, data |-> <<>>]

Row(a, k) == SubSeq(a.data, (k - 1) * a.shape[2] + 1, k * a.shape[2])

\* v / sqrt(sum v_i^2) in 1/FX, the square root taken at the largest scale c
\* that keeps the arithmetic inside 32 bits; a zero row is left unchanged
NormalizeRow(row) ==
    LET n2 == SumSq(row)
    IN IF n2 = 0 THEN row
       ELSE LET c == ISqrt(I32_MAX \div n2)
                nc == SqrtR(n2 * c * c)
            IN [i \in 1..Len(row) |-> DivR(row[i] * FX * c, nc)]

\* rows lo..hi of the array, each normalised, in row-major order
RECURSIVE NormalizeRows(_, _, _)
NormalizeRows(a, lo, hi) ==
    IF lo > hi THEN <<>>
    ELSE IF lo = hi THEN NormalizeRow(Row(a, lo))
    ELSE LET mid == (lo + hi) \div 2
         IN NormalizeRows(a, lo, mid) \o NormalizeRows(a, mid + 1, hi)

\* row-wise L2 normalisation; the shape is kept
l2_norm(a) == [shape |-> a.shape, data |-> NormalizeRows(a, 1, a.shape[1])]

(***************************************************************************)
(* State.                                                                  *)
(*   session[s]      the FaceEmbeddings value new returned, if any          *)
(*   call[c]         one invocation of infer: its position, its arguments,  *)
(*                   its local variables and what it returned               *)
(*   interpreter[c]  the interpreter infer builds                           *)
(*   returned[s]     embedding widths the session has returned so far       *)
(*   steps[c]        the steps call c has executed, in order                *)
(*   cropArg,cropRes argument and result of crop_image_to_bbox used alone   *)
(***************************************************************************)
NoSession == [state |-> "none", model_path |-> "", model |-> Good128]

NoResult == [tag |-> "none", why |-> "", value |-> NoArray]

IdleCall ==
    [pc |-> "idle", self |-> "s1", image |-> EmptyMat, bbox |-> BBox(0, 0, 0, 0),
     roi_image |-> EmptyMat, image_data |-> NoTensor, input_data |-> NoTensor,
     sub_tensor |-> ZeroBuf(0), embeddings |-> NoArray, norm_embeddings |-> NoArray, result |-> NoResult]

NoCrop == [tag |-> "none", mat |-> EmptyMat]

InitCommon ==
    /\ session = [s \in Sessions |-> NoSession]
    /\ call = [c \in Calls |-> IdleCall]
    /\ interpreter = [c \in Calls |-> NoInterpreter]
    /\ returned = [s \in Sessions |-> {}]
    /\ steps = [c \in Calls |-> <<>>]
    /\ cropRes = NoCrop

Init == InitCommon /\ cropArg = <<EmptyMat, BBox(0, 0, 0, 0)>>

(***************************************************************************)
(* FaceEmbeddings::new                                                     *)
(***************************************************************************)
PathOf(arg) == IF arg # <<>> THEN arg[1] ELSE DEFAULT_MODEL_PATH

BuildFromFile_default(path) == <<FileSystem[DEFAULT_MODEL_PATH]>>

\* FlatBufferModel::build_from_file: <<>> is the Err of a file that cannot be read
BuildFromFile(path) == IF path \in DOMAIN FileSystem THEN <<FileSystem[path]>> ELSE <<>>

New(s, arg) ==
    /\ session[s].state = "none"
    /\ LET model_path_buf == PathOf(arg)
           model == BuildFromFile(model_path_buf)
       IN IF model # <<>>
          THEN session' = [session EXCEPT ![s] =
                   [state |-> "ready", model_path |-> model_path_buf, model |-> model[1]]]
          ELSE session' = [session EXCEPT ![s] = [NoSession EXCEPT !.state = "failed"]]
    /\ UNCHANGED <<call, interpreter, returned, steps, cropArg, cropRes>>

(***************************************************************************)
(* FaceEmbeddings::infer, one action per step                              *)
(***************************************************************************)
\* the interpreter a call works on: the one it built itself
InterpOf_shared(c) == "c1"

InterpOf(c) == c

\* `?` on an Err: infer returns the error, its locals are dropped
Fail(c, why) ==
    [IdleCall EXCEPT !.pc = "done", !.self = call[c].self, !.image = call[c].image,
                     !.bbox = call[c].bbox, !.result = [NoResult EXCEPT !.tag = "err", !.why = why]]

\* a panic (unwrap on Err, index out of bounds, slice length mismatch): infer does not return
Panic(c, why) ==
    [IdleCall EXCEPT !.pc = "panicked", !.self = call[c].self, !.image = call[c].image,
                     !.bbox = call[c].bbox, !.result = [NoResult EXCEPT !.tag = "panic", !.why = why]]

\* the interpreter goes out of scope when infer ends
DropInterp(c) == interpreter' = [interpreter EXCEPT ![InterpOf(c)] = NoInterpreter]

Log(c, step) == steps' = [steps EXCEPT ![c] = Append(@, step)]

InferStart(c, s, image, bbox) ==
    /\ call[c].pc = "idle"
    /\ session[s].state = "ready"
    /\ call' = [call EXCEPT ![c] = [IdleCall EXCEPT !.pc = "build", !.self = s,
                                                    !.image = image, !.bbox = bbox]]
    /\ steps' = [steps EXCEPT ![c] = <<>>]
    /\ UNCHANGED <<session, interpreter, returned, cropArg, cropRes>>

BuildInterpreter(c) ==
    /\ call[c].pc = "build"
    /\ Log(c, "build")
    /\ IF session[call[c].self].model.buildOk
       THEN /\ interpreter' = [interpreter EXCEPT ![InterpOf(c)] = BuildInterp(session[call[c].self].model)]
            /\ call' = [call EXCEPT ![c].pc = "allocate"]
       ELSE /\ call' = [call EXCEPT ![c] = Fail(c, "build")]
            /\ UNCHANGED interpreter
    /\ UNCHANGED <<session, returned, cropArg, cropRes>>

AllocateTensors(c) ==
    /\ call[c].pc = "allocate"
    /\ Log(c, "allocate")
    /\ IF interpreter[InterpOf(c)].model.allocOk
       THEN /\ interpreter' = [interpreter EXCEPT ![InterpOf(c)] = Allocated(@)]
            /\ call' = [call EXCEPT ![c].pc = "crop"]
       ELSE /\ call' = [call EXCEPT ![c] = Fail(c, "allocate")]
            /\ DropInterp(c)
    /\ UNCHANGED <<session, returned, cropArg, cropRes>>

Crop(c) ==
    /\ call[c].pc = "crop"
    /\ Log(c, "crop")
    /\ LET r == crop_image_to_bbox(call[c].image, call[c].bbox)
       IN IF r.tag = "ok"
          THEN /\ call' = [call EXCEPT ![c].pc = "tensor", ![c].roi_image = r.mat]
               /\ UNCHANGED interpreter
          ELSE /\ call' = [call EXCEPT ![c] = Panic(c, "crop")]
               /\ DropInterp(c)
    /\ UNCHANGED <<session, returned, cropArg, cropRes>>

ImageToTensor(c) ==
    /\ call[c].pc = "tensor"
    /\ Log(c, "tensor")
    /\ LET r == image_to_tensor(call[c].roi_image, <<IMG_SIZE, IMG_SIZE>>, OUTPUT_RANGE)
       IN IF r.tag = "ok"
          THEN /\ call' = [call EXCEPT ![c].pc = "axis", ![c].image_data = r.tensor_data]
               /\ UNCHANGED interpreter
          ELSE /\ call' = [call EXCEPT ![c] = Fail(c, "tensor")]
               /\ DropInterp(c)
    /\ UNCHANGED <<session, returned, cropArg, cropRes>>

InsertAxis_last(t) == [t EXCEPT !.shape = @ \o <<1>>]

\* insert_axis(Axis(0)): a leading axis of size 1
InsertAxis0(t) == [t EXCEPT !.shape = <<1>> \o @]

AddAxis(c) ==
    /\ call[c].pc = "axis"
    /\ Log(c, "axis")
    /\ call' = [call EXCEPT ![c].pc = "copy", ![c].input_data = InsertAxis0(call[c].image_data),
                            ![c].image_data = NoTensor]
    /\ UNCHANGED <<session, interpreter, returned, cropArg, cropRes>>

\* input_data.into_iter().collect(): the elements in row-major order
Flatten(t) == Buf(Product(t.shape), t.chan)

\* tensor_data / tensor_data_mut for f32: refused for a missing tensor or another element kind
F32Data(model, index) ==
    TensorInfo(model, index) # <<>> /\ TensorInfo(model, index)[1].kind = "f32"

CopyInput(c) ==
    /\ call[c].pc = "copy"
    /\ Log(c, "copy")
    /\ LET interp == interpreter[InterpOf(c)]
           inputs == interp.model.inputs
           sub_tensor == Flatten(call[c].input_data)
       IN IF inputs = <<>>
          THEN call' = [call EXCEPT ![c] = Panic(c, "inputs[0]")] /\ DropInterp(c)
          ELSE IF ~F32Data(interp.model, inputs[1])
          THEN call' = [call EXCEPT ![c] = Fail(c, "input")] /\ DropInterp(c)
          ELSE IF interp.input.len # sub_tensor.len
          THEN call' = [call EXCEPT ![c] = Panic(c, "copy_from_slice")] /\ DropInterp(c)
          ELSE /\ call' = [call EXCEPT ![c].pc = "invoke", ![c].sub_tensor = sub_tensor,
                                       ![c].input_data = NoTensor]
               /\ interpreter' = [interpreter EXCEPT ![InterpOf(c)].input = sub_tensor]
    /\ UNCHANGED <<session, returned, cropArg, cropRes>>

Invoke_beforeCopy(c) ==
    /\ call[c].pc = "copy"
    /\ Log(c, "invoke")
    /\ LET interp == interpreter[InterpOf(c)]
       IN /\ interpreter' = [interpreter EXCEPT ![InterpOf(c)].output =
                                 GraphOutput(interp.model, interp.input)]
          /\ call' = [call EXCEPT ![c].pc = "read"]
    /\ UNCHANGED <<session, returned, cropArg, cropRes>>

\* interpreter.invoke()?
Invoke(c) ==
    /\ call[c].pc = "invoke"
    /\ Log(c, "invoke")
    /\ LET interp == interpreter[InterpOf(c)]
       IN IF interp.model.invokeOk
          THEN /\ interpreter' = [interpreter EXCEPT ![InterpOf(c)].output =
                                      GraphOutput(interp.model, interp.input)]
               /\ call' = [call EXCEPT ![c].pc = "read"]
          ELSE call' = [call EXCEPT ![c] = Fail(c, "invoke")] /\ DropInterp(c)
    /\ UNCHANGED <<session, returned, cropArg, cropRes>>

EmbeddingsShape_swapped(dims) == <<dims[2], dims[1]>>

\* the shape handed to Array2::from_shape_vec
EmbeddingsShape(dims) == <<dims[1], dims[2]>>

ReadOutput(c) ==
    /\ call[c].pc = "read"
    /\ Log(c, "read")
    /\ LET interp == interpreter[InterpOf(c)]
           outputs == interp.model.outputs
           bbox_info == TensorInfo(interp.model, outputs[1])
           raw_embeddings == interp.output
       IN IF outputs = <<>>
          THEN call' = [call EXCEPT ![c] = Panic(c, "outputs[0]")] /\ DropInterp(c)
          ELSE IF bbox_info = <<>>
          THEN call' = [call EXCEPT ![c] = Fail(c, "missing embeddings outputs info")] /\ DropInterp(c)
          ELSE IF ~F32Data(interp.model, outputs[1])
          THEN call' = [call EXCEPT ![c] = Panic(c, "tensor_data")] /\ DropInterp(c)
          ELSE IF Len(bbox_info[1].dims) < 2
          THEN call' = [call EXCEPT ![c] = Panic(c, "dims")] /\ DropInterp(c)
          ELSE IF Product(EmbeddingsShape(bbox_info[1].dims)) # Len(raw_embeddings)
          THEN call' = [call EXCEPT ![c] = Fail(c, "shape")] /\ DropInterp(c)
          ELSE /\ call' = [call EXCEPT ![c].pc = "normalize",
                                       ![c].embeddings = [shape |-> EmbeddingsShape(bbox_info[1].dims),
                                                          data |-> raw_embeddings]]
               /\ UNCHANGED interpreter
    /\ UNCHANGED <<session, returned, cropArg, cropRes>>

Normalized_raw(embeddings) == embeddings

\* let norm_embeddings = l2_norm(&embeddings)
Normalized(embeddings) == l2_norm(embeddings)

Normalize(c) ==
    /\ call[c].pc = "normalize"
    /\ Log(c, "normalize")
    /\ call' = [call EXCEPT ![c].pc = "return", ![c].norm_embeddings = Normalized(call[c].embeddings)]
    /\ UNCHANGED <<session, interpreter, returned, cropArg, cropRes>>

\* Ok(norm_embeddings)
Return(c) ==
    /\ call[c].pc = "return"
    /\ call' = [call EXCEPT ![c] = [IdleCall EXCEPT
                    !.pc = "done", !.self = call[c].self, !.image = call[c].image, !.bbox = call[c].bbox,
                    !.result = [tag |-> "ok", why |-> "", value |-> call[c].norm_embeddings]]]
    /\ returned' = [returned EXCEPT ![call[c].self] = @ \cup {call[c].norm_embeddings.shape[2]}]
    /\ DropInterp(c)
    /\ UNCHANGED <<session, steps, cropArg, cropRes>>

\* the caller takes the Result infer returned and may call again
TakeResult(c) ==
    /\ call[c].pc = "done"
    /\ call' = [call EXCEPT ![c] = IdleCall]
    /\ steps' = [steps EXCEPT ![c] = <<>>]
    /\ UNCHANGED <<session, interpreter, returned, cropArg, cropRes>>

Step(c) ==
    \/ BuildInterpreter(c)
    \/ AllocateTensors(c)
    \/ Crop(c)
    \/ ImageToTensor(c)
    \/ AddAxis(c)
    \/ CopyInput(c)
    \/ Invoke(c)
    \/ ReadOutput(c)
    \/ Normalize(c)
    \/ Return(c)
    \/ TakeResult(c)

(***************************************************************************)
(* One session, one caller making one call after the other, every model    *)
(* file and every box of InferBBoxes.                                      *)
(***************************************************************************)
Next ==
    \/ \E arg \in AllPathArgs : New("s1", arg)
    \/ \E image \in Images, bbox \in InferBBoxes : InferStart("c1", "s1", image, bbox)
    \/ Step("c1")

Spec == Init /\ [][Next]_vars

(***************************************************************************)
(* Two sessions and two callers whose calls interleave step by step.       *)
(***************************************************************************)
NextConc ==
    \/ \E s \in Sessions, arg \in FewPathArgs : New(s, arg)
    \/ \E c \in Calls, s \in Sessions, image \in Images, bbox \in FewBBoxes :
          InferStart(c, s, image, bbox)
    \/ \E c \in Calls : Step(c)

SpecConc == Init /\ [][NextConc]_vars

(***************************************************************************)
(* crop_image_to_bbox alone, on every image and box of the family.         *)
(***************************************************************************)
InitCrop == InitCommon /\ cropArg \in Images \X AllBBoxes

CropApply ==
    /\ cropRes.tag = "none"
    /\ cropRes' = crop_image_to_bbox(cropArg[1], cropArg[2])
    /\ UNCHANGED <<session, call, interpreter, returned, steps, cropArg>>

NextCrop == CropApply

SpecCrop == InitCrop /\ [][NextCrop]_vars

(***************************************************************************)
(* Properties.                                                             *)
(***************************************************************************)
Range(f) == { f[i] : i \in DOMAIN f }

Ended(c) == call[c].pc \in {"done", "panicked"}

\* the rectangle has no area or does not lie inside the image
BadRect(image, r) ==
    \/ r.width <= 0 \/ r.height <= 0
    \/ r.x < 0 \/ r.y < 0
    \/ r.x + r.width > image.cols \/ r.y + r.height > image.rows

\* the box lies inside the image bounds and has positive extents
InsideBox(image, b) ==
    /\ 0 <= b.xmin /\ b.xmin < b.xmax /\ b.xmax <= Q * image.cols
    /\ 0 <= b.ymin /\ b.ymin < b.ymax /\ b.ymax <= Q * image.rows

\* C1: whenever the crop rectangle of a call has width or height <= 0 or
\* extends outside the image, the crop step ends the call by returning an
\* InvalidRegion error: the call does not panic and no cropped image is
\* carried on to the later steps.
C1_InvalidRegionIsReturned ==
    \A c \in Calls :
        ("crop" \in Range(steps[c]) /\ BadRect(call[c].image, CropRect(call[c].bbox)))
            => (call[c].pc = "done" /\ call[c].result.tag = "err" /\ call[c].result.why = "crop")

\* C2: infer has exactly two outcomes, a complete embedding or an error
\* value: no call ends in a panic, and a call that returned holds either an
\* error or an array with as many values as its shape says.
C2_EveryFailureIsReturned ==
    \A c \in Calls :
        /\ call[c].pc # "panicked"
        /\ call[c].pc = "done" =>
              \/ call[c].result.tag = "err"
              \/ /\ call[c].result.tag = "ok"
                 /\ Len(call[c].result.value.data) = Product(call[c].result.value.shape)

\* C3, as claimed: for a box inside the image with positive extents the crop
\* succeeds on the truncated rectangle, which lies inside the image, and the
\* returned image has exactly the dimensions (xmax - xmin, ymax - ymin).
C3_CropHasBoxDimensions ==
    (cropRes.tag # "none" /\ InsideBox(cropArg[1], cropArg[2])) =>
        /\ cropRes.tag = "ok"
        /\ ~BadRect(cropArg[1], [x |-> DivT(cropArg[2].xmin, Q), y |-> DivT(cropArg[2].ymin, Q),
                                 width |-> DivT(cropArg[2].xmax - cropArg[2].xmin, Q),
                                 height |-> DivT(cropArg[2].ymax - cropArg[2].ymin, Q)])
        /\ Q * cropRes.mat.cols = cropArg[2].xmax - cropArg[2].xmin
        /\ Q * cropRes.mat.rows = cropArg[2].ymax - cropArg[2].ymin

\* C3, amended: for a box inside the image with positive extents the crop
\* succeeds on the rectangle x = trunc(xmin), y = trunc(ymin),
\* width = trunc(xmax - xmin), height = trunc(ymax - ymin), which lies inside
\* the image; the returned image has the dimensions (width, height) when both
\* are at least 1 and is the empty 0 x 0 image otherwise; these are
\* (xmax - xmin, ymax - ymin) when both extents are whole numbers.
C3_CropHasTruncatedDimensions ==
    (cropRes.tag # "none" /\ InsideBox(cropArg[1], cropArg[2])) =>
        LET b == cropArg[2]
            w == DivT(b.xmax - b.xmin, Q)
            h == DivT(b.ymax - b.ymin, Q)
            x == DivT(b.xmin, Q)
            y == DivT(b.ymin, Q)
        IN /\ cropRes.tag = "ok"
           /\ 0 <= x /\ x + w <= cropArg[1].cols /\ 0 <= y /\ y + h <= cropArg[1].rows
           /\ (w >= 1 /\ h >= 1) => (cropRes.mat.cols = w /\ cropRes.mat.rows = h)
           /\ (w = 0 \/ h = 0) => (cropRes.mat.cols = 0 /\ cropRes.mat.rows = 0)
           /\ ((b.xmax - b.xmin) % Q = 0 /\ (b.ymax - b.ymin) % Q = 0) =>
                  (Q * cropRes.mat.cols = b.xmax - b.xmin /\ Q * cropRes.mat.rows = b.ymax - b.ymin)

\* a crop of a box with a fractional corner and a fractional extent that returned an image
C3_Witness ==
    /\ cropRes.tag = "ok"
    /\ InsideBox(cropArg[1], cropArg[2])
    /\ cropArg[2].xmin % Q # 0
    /\ (cropArg[2].xmax - cropArg[2].xmin) % Q # 0
    /\ cropRes.mat.cols >= 1

\* the embedding width a model file declares for its first output tensor (0 when it declares none)
DeclaredWidth(model) ==
    IF model.outputs # <<>> /\ TensorInfo(model, model.outputs[1]) # <<>>
       /\ Len(TensorInfo(model, model.outputs[1])[1].dims) = 2
    THEN TensorInfo(model, model.outputs[1])[1].dims[2]
    ELSE 0

\* C4: the array a successful infer returns is 2-D, its first dimension is
\* the submitted batch size 1 and its second the embedding width the loaded
\* model declares for its output tensor, for the 128 and for the 512 models.
C4_ShapeFromMetadata ==
    \A c \in Calls :
        (call[c].pc = "done" /\ call[c].result.tag = "ok") =>
            /\ Len(call[c].result.value.shape) = 2
            /\ call[c].result.value.shape[1] = 1
            /\ call[c].result.value.shape[2] = DeclaredWidth(session[call[c].self].model)
            /\ call[c].result.value.shape[2] \in {128, 512}
            /\ Len(call[c].result.value.data) = call[c].result.value.shape[2]

\* a call on the 512-wide model returned an embedding
C4_Witness ==
    \E c \in Calls :
        /\ call[c].pc = "done" /\ call[c].result.tag = "ok"
        /\ session[call[c].self].model_path = "facenet512.tflite"
        /\ call[c].result.value.shape = <<1, 512>>

\* C5: all embeddings a session has returned, over all its calls, have one
\* width: the one declared by the model file at the path the session was
\* constructed from.
C5_WidthFixedBySession ==
    \A s \in Sessions :
        /\ session[s].state # "ready" => returned[s] = {}
        /\ session[s].state = "ready" =>
              \A w \in returned[s] : w = DeclaredWidth(FileSystem[session[s].model_path])

\* a session constructed from a given path that returned an embedding in an
\* earlier call and whose latest call, with another image, failed
C5_Witness ==
    \E c \in Calls :
        /\ session[call[c].self].model_path = "facenet512.tflite"
        /\ returned[call[c].self] = {512}
        /\ call[c].pc = "panicked"
        /\ call[c].image.px = <<200, 0, 64>>

\* C7: when infer is about to return, every row of the normalised array has
\* norm 1 if the raw row is nonzero (squared norm within 1/500 of 1, the
\* resolution of the 1/FX grid for rows of up to 512 values) and is the raw
\* row if that is the zero vector; the shape is the raw shape; a raw row of
\* norm exactly 1 is returned unchanged.
C7_RowsAreUnitNorm ==
    \A c \in Calls :
        call[c].pc = "return" =>
            LET raw == call[c].embeddings
                out == call[c].norm_embeddings
            IN /\ out.shape = raw.shape
               /\ Len(out.data) = Len(raw.data)
               /\ \A k \in 1..raw.shape[1] :
                     /\ SumSq(Row(raw, k)) = 0 => Row(out, k) = Row(raw, k)
                     /\ SumSq(Row(raw, k)) # 0 =>
                           Abs(SumSq(Row(out, k)) - FX * FX) <= (FX * FX) \div 500
                     /\ SumSq(Row(raw, k)) = FX * FX => Row(out, k) = Row(raw, k)

\* a raw row that is neither zero nor of norm 1 has been normalised
C7_Witness ==
    \E c \in Calls :
        /\ call[c].pc = "return"
        /\ SumSq(Row(call[c].embeddings, 1)) \notin {0, FX * FX}
        /\ call[c].norm_embeddings # call[c].embeddings

\* values of a tensor lie in [0.0, 1.0]
InUnitRange(chan) == \A i \in 1..Len(chan) : 0 <= chan[i] /\ chan[i] <= PIX_MAX

\* C8: the tensor preprocessing produces has shape (112, 112, 3) and values
\* in [0.0, 1.0]; with the batch axis it has shape (1, 112, 112, 3); its
\* flattening has 112*112*3 = 37632 elements, and that many are copied into
\* the input buffer.
C8_TensorShape ==
    \A c \in Calls :
        /\ call[c].pc = "axis" =>
              (call[c].image_data.shape = <<112, 112, 3>> /\ InUnitRange(call[c].image_data.chan))
        /\ call[c].pc = "copy" =>
              (call[c].input_data.shape = <<1, 112, 112, 3>> /\ InUnitRange(call[c].input_data.chan))
        /\ call[c].pc = "invoke" =>
              /\ call[c].sub_tensor.len = 37632
              /\ call[c].sub_tensor.len = 112 * 112 * 3
              /\ InUnitRange(call[c].sub_tensor.chan)
              /\ interpreter[c].input = call[c].sub_tensor

\* the tensor of a crop that is not square has been copied into the input buffer
C8_Witness ==
    \E c \in Calls :
        /\ call[c].pc = "invoke"
        /\ call[c].roi_image.cols # call[c].roi_image.rows
        /\ interpreter[c].input.len = 37632
        /\ interpreter[c].input.chan = <<PIX_MAX, 128, 10>>

\* the steps of infer in the order of the source
PipelineOrder == <<"build", "allocate", "crop", "tensor", "axis", "copy", "invoke", "read", "normalize">>

IsPrefix(p, q) == Len(p) <= Len(q) /\ SubSeq(q, 1, Len(p)) = p

\* the step at which a failure of the given kind happens
FailingStep(why) ==
    CASE why \in {"build", "allocate", "crop", "tensor", "invoke"} -> why
      [] why \in {"inputs[0]", "input", "copy_from_slice"} -> "copy"
      [] OTHER -> "read"

\* within every call the steps run in the order of the pipeline, the graph
\* runs on the complete flattened tensor, the output is read after the run,
\* a call returns an embedding only after the last step, and a step that
\* fails is the last one of its call
StepsInOrder ==
    \A c \in Calls :
        /\ IsPrefix(steps[c], PipelineOrder)
        /\ call[c].pc = "read" =>
              /\ interpreter[c].input = call[c].sub_tensor
              /\ call[c].sub_tensor.len = Product(<<1, IMG_SIZE, IMG_SIZE, CHANNELS>>)
              /\ interpreter[c].output = GraphOutput(session[call[c].self].model, call[c].sub_tensor)
        /\ call[c].pc = "normalize" =>
              call[c].embeddings.data = GraphOutput(session[call[c].self].model, call[c].sub_tensor)
        /\ (call[c].pc = "done" /\ call[c].result.tag = "ok") => steps[c] = PipelineOrder
        /\ (Ended(c) /\ call[c].result.tag # "ok") =>
              (steps[c] # <<>> /\ steps[c][Len(steps[c])] = FailingStep(call[c].result.why))

CropFailed(c) == Ended(c) /\ call[c].result.tag # "ok" /\ call[c].result.why = "crop"

\* C10, as claimed: the steps run in order, and a call whose crop fails has
\* built no execution context and allocated no tensor.
C10_NoContextWhenCropFails ==
    /\ StepsInOrder
    /\ \A c \in Calls :
          CropFailed(c) => ("build" \notin Range(steps[c]) /\ "allocate" \notin Range(steps[c]))

\* C10, amended: the steps run in the order build execution context,
\* allocate tensors, crop, preprocess, copy, execute, read, normalize; the
\* graph runs only on the complete flattened tensor, the output is read only
\* after the run, the call returns only after the last step, and once a step
\* fails no later step is run.  The execution context is built and its
\* tensors are allocated before the crop, so a call whose crop fails has
\* done both, and nothing after the crop.
C10_StepsInOrder ==
    /\ StepsInOrder
    /\ \A c \in Calls : CropFailed(c) => steps[c] = <<"build", "allocate", "crop">>

\* a call whose crop failed
C10_Witness == \E c \in Calls : CropFailed(c) /\ steps[c] # <<>>

Err(why) == [NoResult EXCEPT !.tag = "err", !.why = why]

Panicked(why) == [NoResult EXCEPT !.tag = "panic", !.why = why]

\* what infer yields from its arguments when it is the only call running:
\* the composition of its steps
OutputAlone(model, input) ==
    LET bbox_info == TensorInfo(model, model.outputs[1])
        raw == GraphOutput(model, input)
    IN IF model.outputs = <<>> THEN Panicked("outputs[0]")
       ELSE IF bbox_info = <<>> THEN Err("missing embeddings outputs info")
       ELSE IF ~F32Data(model, model.outputs[1]) THEN Panicked("tensor_data")
       ELSE IF Len(bbox_info[1].dims) < 2 THEN Panicked("dims")
       ELSE IF bbox_info[1].dims[1] * bbox_info[1].dims[2] # Len(raw) THEN Err("shape")
       ELSE [tag |-> "ok", why |-> "",
             value |-> l2_norm([shape |-> <<bbox_info[1].dims[1], bbox_info[1].dims[2]>>, data |-> raw])]

InferAlone(model, image, bbox) ==
    LET roi == crop_image_to_bbox(image, bbox)
        t == image_to_tensor(roi.mat, <<IMG_SIZE, IMG_SIZE>>, OUTPUT_RANGE)
        input == Buf(IMG_SIZE * IMG_SIZE * CHANNELS, t.tensor_data.chan)
    IN IF ~model.buildOk THEN Err("build")
       ELSE IF ~model.allocOk THEN Err("allocate")
       ELSE IF roi.tag # "ok" THEN Panicked("crop")
       ELSE IF t.tag # "ok" THEN Err("tensor")
       ELSE IF model.inputs = <<>> THEN Panicked("inputs[0]")
       ELSE IF ~F32Data(model, model.inputs[1]) THEN Err("input")
       ELSE IF BufLen(model, model.inputs) # input.len THEN Panicked("copy_from_slice")
       ELSE IF ~model.invokeOk THEN Err("invoke")
       ELSE OutputAlone(model, input)

ResultAsAlone ==
    \A c \in Calls :
        Ended(c) => call[c].result = InferAlone(session[call[c].self].model, call[c].image, call[c].bbox)

\* a constructed session never changes
SessionKept == \A s \in Sessions : session[s].state = "ready" => session'[s] = session[s]

\* the interpreter of a call changes only in a step of that call
BuffersPrivate == \A c \in Calls : call'[c] = call[c] => interpreter'[c] = interpreter[c]

\* C6: the steps of infer leave every constructed session (model and model
\* path) unchanged, a call's interpreter and buffers are touched by that call
\* only, and under every interleaving of the calls each call ends with the
\* result it yields when run alone.
C6_CallsAreIndependent == [](ResultAsAlone) /\ [][SessionKept /\ BuffersPrivate]_vars

\* two calls on one session with different images have both returned, with different embeddings
C6_Witness ==
    /\ call["c1"].pc = "done" /\ call["c2"].pc = "done"
    /\ call["c1"].self = call["c2"].self
    /\ call["c1"].image # call["c2"].image
    /\ call["c1"].result.tag = "ok" /\ call["c2"].result.tag = "ok"
    /\ call["c1"].result.value # call["c2"].result.value

====
